---- MODULE Spec2Model ----
(***************************************************************************)
(* Model of the ColorSequenceGame sketch: a four colour memory game driven *)
(* by one polling loop (setup, then loop forever).  Every digitalWrite and *)
(* every poll of the buttons is one step; delay() changes no state and is  *)
(* not a step of its own.                                                  *)
(***************************************************************************)
EXTENDS Integers, Sequences, FiniteSets, TLC

\* ------------------------------------------------------------ constants
RED_BUTTON == 2
RED_LED == 3
BLUE_BUTTON == 4
BLUE_LED == 5
GREEN_BUTTON == 6
GREEN_LED == 7
YELLOW_BUTTON == 8
YELLOW_LED == 9

LOW == "LOW"
HIGH == "HIGH"
Levels == {LOW, HIGH}

NO_COLOR == 0
RED == 1
BLUE == 2
GREEN == 3
YELLOW == 4
Color == {NO_COLOR, RED, BLUE, GREEN, YELLOW}

\* Color sequence[25]
SEQ_CAPACITY == 25
\* uint8_t arithmetic
UINT8_MOD == 256

\* bound of the exploration: the number of rounds one behaviour starts
MaxRounds == 3

\* pins a digitalWrite of the program can name (0 is the "no pin" default)
OutPins == {0, RED_LED, BLUE_LED, GREEN_LED, YELLOW_LED}
ButtonPins == {RED_BUTTON, BLUE_BUTTON, GREEN_BUTTON, YELLOW_BUTTON}

VARIABLES
    pc,                  \* position of the single thread of control
    step,                \* next write of the running animation (runStartup, showLoss)
    has_lost,            \* g_GameState.has_lost
    sequence,            \* g_GameState.sequence
    index,               \* g_GameState.index
    red_button_state,
    blue_button_state,
    green_button_state,
    yellow_button_state,
    led,                 \* level of every output pin
    i,                   \* loop counter of displaySequence
    btnsPressed,         \* loop counter of startNextRound
    chosenColor,         \* local of startNextRound
    buttonPin,           \* local of getButtonColor
    ledPin,              \* local of getButtonColor
    rounds,              \* history: calls of startNextRound
    wins,                \* history: rounds that returned with every input matched
    inputs,              \* history: colours getButtonColor returned in this round
    pulses,              \* history: writes made by the running displaySequence
    storeAt,             \* history: position of the last store of addColor
    sampled,             \* history: input pins read since this round began
    polled,              \* history: last level read by the hold loop of this
                         \* getButtonColor call ("NONE" before its first read)
    budget               \* rounds the exploration may still start

vars == << pc, step, has_lost, sequence, index, red_button_state,
           blue_button_state, green_button_state, yellow_button_state, led,
           i, btnsPressed, chosenColor, buttonPin, ledPin, rounds, wins,
           inputs, pulses, storeAt, sampled, polled, budget >>

gameVars == << has_lost, sequence, index >>
buttonVars == << red_button_state, blue_button_state, green_button_state,
                 yellow_button_state >>
localVars == << i, btnsPressed, chosenColor, buttonPin, ledPin >>
histVars == << rounds, wins, inputs, pulses, storeAt, sampled, polled >>

\* ------------------------------------------------------------ helpers
\* digitalWrite(pin, level)
digitalWrite(pin, level) == [led EXCEPT ![pin] = level]

\* random(min, max): any value of min .. max-1
random(min, max) == min .. (max - 1)

\* the switch of displayColor
displayColorPin(c) ==
    CASE c = RED -> RED_LED
      [] c = BLUE -> BLUE_LED
      [] c = GREEN -> GREEN_LED
      [] c = YELLOW -> YELLOW_LED
      [] OTHER -> 0

colorToLED(color) ==
    CASE color = RED -> RED_LED
      [] color = BLUE -> BLUE_LED
      [] color = GREEN -> GREEN_LED
      [] color = YELLOW -> YELLOW_LED
      [] OTHER -> 0

\* variant: the cached states tested in the opposite order
getButtonPressed_yellowFirst ==
    IF yellow_button_state = HIGH THEN YELLOW_BUTTON
    ELSE IF green_button_state = HIGH THEN GREEN_BUTTON
    ELSE IF blue_button_state = HIGH THEN BLUE_BUTTON
    ELSE IF red_button_state = HIGH THEN RED_BUTTON
    ELSE 0

getButtonPressed ==
    IF red_button_state = HIGH THEN RED_BUTTON
    ELSE IF blue_button_state = HIGH THEN BLUE_BUTTON
    ELSE IF green_button_state = HIGH THEN GREEN_BUTTON
    ELSE IF yellow_button_state = HIGH THEN YELLOW_BUTTON
    ELSE 0

buttonToLED(btn_pin) ==
    CASE btn_pin = RED_BUTTON -> RED_LED
      [] btn_pin = BLUE_BUTTON -> BLUE_LED
      [] btn_pin = GREEN_BUTTON -> GREEN_LED
      [] btn_pin = YELLOW_BUTTON -> YELLOW_LED
      [] OTHER -> NO_COLOR

buttonToColor(btnPin) ==
    CASE btnPin = RED_BUTTON -> RED
      [] btnPin = BLUE_BUTTON -> BLUE
      [] btnPin = GREEN_BUTTON -> GREEN
      [] btnPin = YELLOW_BUTTON -> YELLOW
      [] OTHER -> NO_COLOR

\* variant: green is turned on before blue
StartupWrites_greenFirst ==
    << <<RED_LED, HIGH>>, <<GREEN_LED, HIGH>>, <<BLUE_LED, HIGH>>,
       <<YELLOW_LED, HIGH>>, <<RED_LED, LOW>>, <<BLUE_LED, LOW>>,
       <<GREEN_LED, LOW>>, <<YELLOW_LED, LOW>> >>

\* the writes of runStartup, in program order
StartupWrites ==
    << <<RED_LED, HIGH>>, <<BLUE_LED, HIGH>>, <<GREEN_LED, HIGH>>,
       <<YELLOW_LED, HIGH>>, <<RED_LED, LOW>>, <<BLUE_LED, LOW>>,
       <<GREEN_LED, LOW>>, <<YELLOW_LED, LOW>> >>

\* variant: the outputs are turned off in the order of runStartup
LossWrites_redFirst ==
    << <<RED_LED, HIGH>>, <<BLUE_LED, HIGH>>, <<GREEN_LED, HIGH>>,
       <<YELLOW_LED, HIGH>>, <<RED_LED, LOW>>, <<BLUE_LED, LOW>>,
       <<GREEN_LED, LOW>>, <<YELLOW_LED, LOW>> >>

\* the writes of showLoss, in program order
LossWrites ==
    << <<RED_LED, HIGH>>, <<BLUE_LED, HIGH>>, <<GREEN_LED, HIGH>>,
       <<YELLOW_LED, HIGH>>, <<YELLOW_LED, LOW>>, <<GREEN_LED, LOW>>,
       <<BLUE_LED, LOW>>, <<RED_LED, LOW>> >>

\* ------------------------------------------------------------ initial state
\* the globals as their initialisers leave them, control at the start of setup
Init ==
    /\ pc = "runStartup"
    /\ step = 1
    /\ has_lost = FALSE
    /\ sequence = [n \in 0 .. (SEQ_CAPACITY - 1) |-> NO_COLOR]
    /\ index = 0
    /\ red_button_state = LOW
    /\ blue_button_state = LOW
    /\ green_button_state = LOW
    /\ yellow_button_state = LOW
    /\ led = [p \in OutPins |-> LOW]
    /\ i = 0
    /\ btnsPressed = 0
    /\ chosenColor = NO_COLOR
    /\ buttonPin = 0
    /\ ledPin = 0
    /\ rounds = 0
    /\ wins = 0
    /\ inputs = << >>
    /\ pulses = << >>
    /\ storeAt = -1
    /\ sampled = {}
    /\ polled = "NONE"
    /\ budget = MaxRounds

\* ------------------------------------------------------------ setup
\* setup: runStartup, one digitalWrite a step; after the last one the main
\* loop begins
runStartup ==
    /\ pc = "runStartup"
    /\ led' = digitalWrite(StartupWrites[step][1], StartupWrites[step][2])
    /\ IF step < Len(StartupWrites)
       THEN /\ step' = step + 1
            /\ pc' = pc
       ELSE /\ step' = 1
            /\ pc' = "loop"
    /\ UNCHANGED << gameVars, buttonVars, localVars, histVars, budget >>

\* ------------------------------------------------------------ loop
\* loop, has_lost false: call startNextRound
\* variant: loop starts a round without testing has_lost
loopPlaying_ignoreLoss ==
    /\ pc = "loop"
    /\ budget > 0
    /\ budget' = budget - 1
    /\ rounds' = rounds + 1
    /\ inputs' = << >>
    /\ sampled' = {}
    /\ pc' = "addColor"
    /\ UNCHANGED << step, gameVars, buttonVars, led, localVars, wins, pulses,
                    storeAt, polled >>

loopPlaying ==
    /\ pc = "loop"
    /\ ~has_lost
    /\ budget > 0
    /\ budget' = budget - 1
    /\ rounds' = rounds + 1
    /\ inputs' = << >>
    /\ sampled' = {}
    /\ pc' = "addColor"
    /\ UNCHANGED << step, gameVars, buttonVars, led, localVars, wins, pulses,
                    storeAt, polled >>

\* loop, has_lost true: call showLoss
loopLost ==
    /\ pc = "loop"
    /\ has_lost
    /\ pc' = "showLoss"
    /\ step' = 1
    /\ UNCHANGED << gameVars, buttonVars, led, localVars, histVars, budget >>

\* showLoss, one digitalWrite a step; returns to loop after the last one
\* variant: showLoss clears has_lost when it returns
showLoss_reset ==
    /\ pc = "showLoss"
    /\ led' = digitalWrite(LossWrites[step][1], LossWrites[step][2])
    /\ IF step < Len(LossWrites)
       THEN /\ step' = step + 1
            /\ pc' = pc
            /\ UNCHANGED has_lost
       ELSE /\ step' = 1
            /\ pc' = "loop"
            /\ has_lost' = FALSE
    /\ UNCHANGED << sequence, index, buttonVars, localVars, histVars, budget >>

showLoss ==
    /\ pc = "showLoss"
    /\ led' = digitalWrite(LossWrites[step][1], LossWrites[step][2])
    /\ IF step < Len(LossWrites)
       THEN /\ step' = step + 1
            /\ pc' = pc
       ELSE /\ step' = 1
            /\ pc' = "loop"
    /\ UNCHANGED << gameVars, buttonVars, localVars, histVars, budget >>

\* ------------------------------------------------------------ startNextRound
\* variant: the draw includes NO_COLOR
addColor_anyColor ==
    /\ pc = "addColor"
    /\ \E color \in random(NO_COLOR, YELLOW + 1) :
          /\ storeAt' = index
          /\ index < SEQ_CAPACITY
          /\ sequence' = [sequence EXCEPT ![index] = color]
          /\ index' = (index + 1) % UINT8_MOD
          /\ pc' = "displaySequence"
    /\ i' = 0
    /\ pulses' = << >>
    /\ UNCHANGED << step, has_lost, buttonVars, led, btnsPressed, chosenColor,
                    buttonPin, ledPin, rounds, wins, inputs, sampled, polled,
                    budget >>

\* variant: the store also overwrites the first element
addColor_overwrite ==
    /\ pc = "addColor"
    /\ \E color \in random(RED, YELLOW + 1) :
          /\ storeAt' = 0
          /\ index < SEQ_CAPACITY
          /\ sequence' = [[sequence EXCEPT ![index] = color] EXCEPT ![0] = color]
          /\ index' = (index + 1) % UINT8_MOD
          /\ pc' = "displaySequence"
    /\ i' = 0
    /\ pulses' = << >>
    /\ UNCHANGED << step, has_lost, buttonVars, led, btnsPressed, chosenColor,
                    buttonPin, ledPin, rounds, wins, inputs, sampled, polled,
                    budget >>

\* addColor.  With index < 25 the store is inside the array.  With index = 25
\* the store names sequence[25], one past the array: the behaviour is undefined.
\* The struct places index right behind the array, so the builds' outcomes are
\* the store landing on index (index becomes color, then color + 1) or the
\* increment using the value read before the store (index becomes 26); the
\* model follows the program no further.
addColor ==
    /\ pc = "addColor"
    /\ \E color \in random(RED, YELLOW + 1) :
          /\ storeAt' = index
          /\ IF index < SEQ_CAPACITY
             THEN /\ sequence' = [sequence EXCEPT ![index] = color]
                  /\ index' = (index + 1) % UINT8_MOD
                  /\ pc' = "displaySequence"
             ELSE /\ sequence' = sequence
                  /\ index' \in {(index + 1) % UINT8_MOD, (color + 1) % UINT8_MOD}
                  /\ pc' = "undefined"
    /\ i' = 0
    /\ pulses' = << >>
    /\ UNCHANGED << step, has_lost, buttonVars, led, btnsPressed, chosenColor,
                    buttonPin, ledPin, rounds, wins, inputs, sampled, polled,
                    budget >>

\* displaySequence: the loop test; after the last element the for loop of
\* startNextRound begins with btnsPressed = 0
\* variant: the loop stops one element early
displaySequence_oneShort ==
    /\ pc = "displaySequence"
    /\ IF i + 1 < index
       THEN /\ pc' = "displayColorHigh"
            /\ UNCHANGED btnsPressed
       ELSE /\ pc' = "for"
            /\ btnsPressed' = 0
    /\ UNCHANGED << step, gameVars, buttonVars, led, i, chosenColor, buttonPin,
                    ledPin, histVars, budget >>

displaySequence ==
    /\ pc = "displaySequence"
    /\ IF i < index
       THEN /\ pc' = "displayColorHigh"
            /\ UNCHANGED btnsPressed
       ELSE /\ pc' = "for"
            /\ btnsPressed' = 0
    /\ UNCHANGED << step, gameVars, buttonVars, led, i, chosenColor, buttonPin,
                    ledPin, histVars, budget >>

\* displayColor(sequence[i]): digitalWrite(color_pin, HIGH)
displayColorHigh ==
    /\ pc = "displayColorHigh"
    /\ led' = digitalWrite(displayColorPin(sequence[i]), HIGH)
    /\ pulses' = Append(pulses, << displayColorPin(sequence[i]), HIGH >>)
    /\ pc' = "displayColorLow"
    /\ UNCHANGED << step, gameVars, buttonVars, localVars, rounds, wins, inputs,
                    storeAt, sampled, polled, budget >>

\* variant: the pause after a colour samples the buttons
displayColorLow_polls ==
    /\ pc = "displayColorLow"
    /\ led' = digitalWrite(displayColorPin(sequence[i]), LOW)
    /\ pulses' = Append(pulses, << displayColorPin(sequence[i]), LOW >>)
    /\ i' = (i + 1) % UINT8_MOD
    /\ pc' = "displaySequence"
    /\ \E r \in Levels, b \in Levels, g \in Levels, y \in Levels :
          /\ red_button_state' = r
          /\ blue_button_state' = b
          /\ green_button_state' = g
          /\ yellow_button_state' = y
    /\ sampled' = sampled \cup ButtonPins
    /\ UNCHANGED << step, gameVars, btnsPressed, chosenColor, buttonPin, ledPin,
                    rounds, wins, inputs, storeAt, polled, budget >>

\* displayColor(sequence[i]): digitalWrite(color_pin, LOW), then i++
displayColorLow ==
    /\ pc = "displayColorLow"
    /\ led' = digitalWrite(displayColorPin(sequence[i]), LOW)
    /\ pulses' = Append(pulses, << displayColorPin(sequence[i]), LOW >>)
    /\ i' = (i + 1) % UINT8_MOD
    /\ pc' = "displaySequence"
    /\ UNCHANGED << step, gameVars, buttonVars, btnsPressed, chosenColor,
                    buttonPin, ledPin, rounds, wins, inputs, storeAt, sampled,
                    polled, budget >>

\* the test of the for loop of startNextRound: another input, or the round
\* returns with every input matched
startNextRoundFor ==
    /\ pc = "for"
    /\ IF btnsPressed < index
       THEN /\ pc' = "buttonIsPressed"
            /\ UNCHANGED wins
       ELSE /\ pc' = "loop"
            /\ wins' = wins + 1
    /\ UNCHANGED << step, gameVars, buttonVars, led, localVars, rounds, inputs,
                    pulses, storeAt, sampled, polled, budget >>

\* variant: the wait gives up on a sample with no line high
buttonIsPressed_giveUp ==
    /\ pc = "buttonIsPressed"
    /\ \E r \in Levels, b \in Levels, g \in Levels, y \in Levels :
          /\ red_button_state' = r
          /\ blue_button_state' = b
          /\ green_button_state' = g
          /\ yellow_button_state' = y
          /\ pc' = "getButtonPressed"
    /\ sampled' = sampled \cup ButtonPins
    /\ UNCHANGED << step, gameVars, led, localVars, rounds, wins, inputs, pulses,
                    storeAt, polled, budget >>

\* getButtonColor, the wait: buttonIsPressed samples the four input lines into
\* the cached states; the wait ends with the first sample that has one high
buttonIsPressed ==
    /\ pc = "buttonIsPressed"
    /\ \E r \in Levels, b \in Levels, g \in Levels, y \in Levels :
          /\ red_button_state' = r
          /\ blue_button_state' = b
          /\ green_button_state' = g
          /\ yellow_button_state' = y
          /\ pc' = IF r = HIGH \/ b = HIGH \/ g = HIGH \/ y = HIGH
                   THEN "getButtonPressed"
                   ELSE pc
    /\ sampled' = sampled \cup ButtonPins
    /\ UNCHANGED << step, gameVars, led, localVars, rounds, wins, inputs, pulses,
                    storeAt, polled, budget >>

\* variant: the press is classified from a second sample of the lines
getButtonColorLight_resample ==
    /\ pc = "getButtonPressed"
    /\ \E r \in Levels, b \in Levels, g \in Levels, y \in Levels :
          /\ red_button_state' = r
          /\ blue_button_state' = b
          /\ green_button_state' = g
          /\ yellow_button_state' = y
          /\ buttonPin' = IF r = HIGH THEN RED_BUTTON
                          ELSE IF b = HIGH THEN BLUE_BUTTON
                          ELSE IF g = HIGH THEN GREEN_BUTTON
                          ELSE IF y = HIGH THEN YELLOW_BUTTON
                          ELSE 0
    /\ ledPin' = buttonToLED(buttonPin')
    /\ led' = digitalWrite(ledPin', HIGH)
    /\ polled' = "NONE"
    /\ pc' = "held"
    /\ UNCHANGED << step, gameVars, i, btnsPressed, chosenColor,
                    rounds, wins, inputs, pulses, storeAt, sampled, budget >>

\* getButtonColor: classify the press and light its LED
getButtonColorLight ==
    /\ pc = "getButtonPressed"
    /\ buttonPin' = getButtonPressed
    /\ ledPin' = buttonToLED(buttonPin')
    /\ led' = digitalWrite(ledPin', HIGH)
    /\ polled' = "NONE"
    /\ pc' = "held"
    /\ UNCHANGED << step, gameVars, buttonVars, i, btnsPressed, chosenColor,
                    rounds, wins, inputs, pulses, storeAt, sampled, budget >>

\* variant: the hold loop reads the LED pin it has just driven high
getButtonColorHeld_readsLed ==
    /\ pc = "held"
    /\ \E level \in {led[ledPin]} :
          /\ polled' = level
          /\ sampled' = sampled
          /\ IF level = HIGH
             THEN UNCHANGED << pc, step, gameVars, buttonVars, led, localVars,
                               rounds, wins, inputs, pulses, storeAt, budget >>
             ELSE /\ led' = digitalWrite(ledPin, LOW)
                  /\ chosenColor' = buttonToColor(buttonPin)
                  /\ inputs' = Append(inputs, buttonToColor(buttonPin))
                  /\ pc' = "compare"
                  /\ UNCHANGED << step, gameVars, buttonVars, i, btnsPressed,
                                  buttonPin, ledPin, rounds, wins, pulses,
                                  storeAt, budget >>

\* variant: the call returns without turning the LED off
getButtonColorHeld_ledOn ==
    /\ pc = "held"
    /\ \E level \in Levels :
          /\ polled' = level
          /\ sampled' = sampled \cup {buttonPin}
          /\ IF level = HIGH
             THEN UNCHANGED << pc, step, gameVars, buttonVars, led, localVars,
                               rounds, wins, inputs, pulses, storeAt, budget >>
             ELSE /\ chosenColor' = buttonToColor(buttonPin)
                  /\ inputs' = Append(inputs, buttonToColor(buttonPin))
                  /\ pc' = "compare"
                  /\ UNCHANGED << step, gameVars, buttonVars, led, i,
                                  btnsPressed, buttonPin, ledPin, rounds, wins,
                                  pulses, storeAt, budget >>

\* variant: the button is polled once, and the call returns whatever it read
getButtonColorHeld_once ==
    /\ pc = "held"
    /\ \E level \in Levels :
          /\ polled' = level
          /\ sampled' = sampled \cup {buttonPin}
          /\ led' = digitalWrite(ledPin, LOW)
          /\ chosenColor' = buttonToColor(buttonPin)
          /\ inputs' = Append(inputs, buttonToColor(buttonPin))
          /\ pc' = "compare"
          /\ UNCHANGED << step, gameVars, buttonVars, i, btnsPressed,
                          buttonPin, ledPin, rounds, wins, pulses,
                          storeAt, budget >>

\* getButtonColor: poll the classified button; on the first low read turn the
\* LED off and return buttonToColor(buttonPin) into chosenColor
getButtonColorHeld ==
    /\ pc = "held"
    /\ \E level \in Levels :
          /\ polled' = level
          /\ sampled' = sampled \cup {buttonPin}
          /\ IF level = HIGH
             THEN UNCHANGED << pc, step, gameVars, buttonVars, led, localVars,
                               rounds, wins, inputs, pulses, storeAt, budget >>
             ELSE /\ led' = digitalWrite(ledPin, LOW)
                  /\ chosenColor' = buttonToColor(buttonPin)
                  /\ inputs' = Append(inputs, buttonToColor(buttonPin))
                  /\ pc' = "compare"
                  /\ UNCHANGED << step, gameVars, buttonVars, i, btnsPressed,
                                  buttonPin, ledPin, rounds, wins, pulses,
                                  storeAt, budget >>

\* the body of the for loop: on a mismatch set has_lost and return
\* variant: a mismatch sets has_lost but the loop goes on
startNextRoundCompare_noReturn ==
    /\ pc = "compare"
    /\ IF chosenColor # sequence[btnsPressed]
       THEN has_lost' = TRUE
       ELSE UNCHANGED has_lost
    /\ btnsPressed' = (btnsPressed + 1) % UINT8_MOD
    /\ pc' = "for"
    /\ UNCHANGED << step, sequence, index, buttonVars, led, i, chosenColor,
                    buttonPin, ledPin, histVars, budget >>

startNextRoundCompare ==
    /\ pc = "compare"
    /\ IF chosenColor # sequence[btnsPressed]
       THEN /\ has_lost' = TRUE
            /\ pc' = "loop"
            /\ UNCHANGED btnsPressed
       ELSE /\ btnsPressed' = (btnsPressed + 1) % UINT8_MOD
            /\ pc' = "for"
            /\ UNCHANGED has_lost
    /\ UNCHANGED << step, sequence, index, buttonVars, led, i, chosenColor,
                    buttonPin, ledPin, histVars, budget >>

\* ------------------------------------------------------------ specifications
Next ==
    \/ runStartup
    \/ loopPlaying
    \/ loopLost
    \/ showLoss
    \/ addColor
    \/ displaySequence
    \/ displayColorHigh
    \/ displayColorLow
    \/ startNextRoundFor
    \/ buttonIsPressed
    \/ getButtonColorLight
    \/ getButtonColorHeld
    \/ startNextRoundCompare

Spec == Init /\ [][Next]_vars

\* The same program with the processor always running and a player who
\* presses a button whenever the program waits for one and lets go of every
\* button held.  ProgramStep is every step that reads no input line; Pressed
\* is a sample of the wait with a line high, Released a poll of the hold loop
\* that reads low.
ProgramStep ==
    \/ runStartup
    \/ loopPlaying
    \/ loopLost
    \/ showLoss
    \/ addColor
    \/ displaySequence
    \/ displayColorHigh
    \/ displayColorLow
    \/ startNextRoundFor
    \/ getButtonColorLight
    \/ startNextRoundCompare

Pressed == buttonIsPressed /\ pc' = "getButtonPressed"

Released == getButtonColorHeld /\ polled' = LOW

SpecFair ==
    /\ Spec
    /\ WF_vars(ProgramStep)
    /\ WF_vars(Pressed)
    /\ WF_vars(Released)

\* The game late in a run without a mistake: LateIndex rounds are won, the
\* colours drawn so far follow one of four cyclic patterns, and control is
\* back in loop.  Every variable has the value the program leaves there.
LateIndex == SEQ_CAPACITY - 1

LateColor(k, n) == ((n + k) % 4) + 1

RECURSIVE Playback(_, _)
Playback(seq, n) ==
    IF n = 0 THEN << >>
    ELSE Playback(seq, n - 1)
           \o << << displayColorPin(seq[n - 1]), HIGH >>,
                 << displayColorPin(seq[n - 1]), LOW >> >>

InitLate ==
    \E k \in 0 .. 3 :
       LET last == LateColor(k, LateIndex - 1) IN
       /\ pc = "loop"
       /\ step = 1
       /\ has_lost = FALSE
       /\ sequence = [n \in 0 .. (SEQ_CAPACITY - 1) |->
                         IF n < LateIndex THEN LateColor(k, n) ELSE NO_COLOR]
       /\ index = LateIndex
       /\ red_button_state = IF last = RED THEN HIGH ELSE LOW
       /\ blue_button_state = IF last = BLUE THEN HIGH ELSE LOW
       /\ green_button_state = IF last = GREEN THEN HIGH ELSE LOW
       /\ yellow_button_state = IF last = YELLOW THEN HIGH ELSE LOW
       /\ led = [p \in OutPins |-> LOW]
       /\ i = LateIndex
       /\ btnsPressed = LateIndex
       /\ chosenColor = last
       /\ buttonPin = CHOOSE p \in ButtonPins : buttonToColor(p) = last
       /\ ledPin = colorToLED(last)
       /\ rounds = LateIndex
       /\ wins = LateIndex
       /\ inputs = [n \in 1 .. LateIndex |-> LateColor(k, n - 1)]
       /\ pulses = Playback([n \in 0 .. (LateIndex - 1) |-> LateColor(k, n)],
                            LateIndex)
       /\ storeAt = LateIndex - 1
       /\ sampled = ButtonPins
       /\ polled = LOW
       /\ budget = MaxRounds

NextLate ==
    \/ loopPlaying
    \/ loopLost
    \/ showLoss
    \/ addColor
    \/ displaySequence
    \/ displayColorHigh
    \/ displayColorLow
    \/ startNextRoundFor
    \/ buttonIsPressed
    \/ getButtonColorLight
    \/ getButtonColorHeld
    \/ startNextRoundCompare

SpecLate == InitLate /\ [][NextLate]_vars

\* ------------------------------------------------------------ properties
PlayableColors == {RED, BLUE, GREEN, YELLOW}

\* positions of startNextRound after addColor has returned
DisplayPcs == {"displaySequence", "displayColorHigh", "displayColorLow"}
InputPcs == {"for", "buttonIsPressed", "getButtonPressed", "held", "compare"}

\* positions (0-indexed) of this round's inputs that differ from the sequence
Mismatches == {j \in 0 .. (Len(inputs) - 1) : inputs[j + 1] # sequence[j]}

\* C1: the game starts with has_lost false and index 0; between rounds of a
\* game not lost, index is the number of rounds won; every call of
\* startNextRound raises index by exactly one (index counts the calls), also
\* in the round that is lost.
C1_IndexCountsRounds ==
    /\ (rounds = 0 => ~has_lost /\ index = 0)
    /\ (pc = "loop" /\ ~has_lost => index = wins)
    /\ (pc = "addColor" => index = rounds - 1)
    /\ (pc # "addColor" => index = rounds)

\* C2: once has_lost is true it stays true: no step writes false to it.
C2_HasLostNeverReverts == [][has_lost => has_lost']_vars

C2_Witness == has_lost /\ pc = "showLoss" /\ step = Len(LossWrites)

\* C3: an input that differs from its expected element is the last input the
\* round reads: once it has been compared the round has returned with
\* has_lost set, so with the first mismatch at position k exactly k+1 inputs
\* are read and positions k+1..N-1 are never read.
C3_MismatchEndsRound ==
    /\ \A j \in Mismatches :
          /\ j = Len(inputs) - 1
          /\ \/ pc = "compare"
             \/ has_lost /\ pc \in {"loop", "showLoss"}
    /\ (has_lost => Mismatches # {} /\ Len(inputs) <= index)

C3_Witness ==
    /\ has_lost
    /\ pc = "loop"
    /\ index = 3
    /\ Mismatches = {1}
    /\ Len(inputs) = 2

\* C4: index never exceeds the capacity of sequence, and every store of
\* addColor is to one of the positions 0..24.
C4_IndexWithinCapacity ==
    /\ index <= SEQ_CAPACITY
    /\ storeAt < SEQ_CAPACITY

\* C5: a mismatch leaves has_lost true; from then on loop only ever calls
\* showLoss: no round is started again and control never leaves loop and
\* showLoss.
C5_LostIsTerminal ==
    [][ /\ (pc = "compare" /\ chosenColor # sequence[btnsPressed] => has_lost')
        /\ (has_lost => has_lost')
        /\ (has_lost /\ pc = "loop" => pc' = "showLoss")
        /\ (has_lost => pc' \in {"loop", "showLoss"} /\ rounds' = rounds) ]_vars

C5_Witness == has_lost /\ pc = "showLoss" /\ step = 1 /\ led[RED_LED] = LOW

\* C6: a round ends with has_lost true exactly when one of its inputs differs
\* from the sequence; a round whose N inputs all match reads exactly N inputs
\* and leaves has_lost false, and the round after it runs with a sequence of
\* N+1 stored elements.
C6_LostIffMismatch ==
    /\ (pc \in {"loop", "showLoss"} /\ rounds > 0 =>
          /\ has_lost <=> Mismatches # {}
          /\ ~has_lost => Len(inputs) = index)
    /\ (has_lost => pc \in {"loop", "showLoss"})
    /\ (pc \notin {"runStartup", "loop", "showLoss", "addColor"} =>
          /\ index = wins + 1
          /\ (index - 1) \in DOMAIN sequence)

\* C7: displaySequence writes, for n = 0..index-1 in this order, HIGH and then
\* LOW to the LED of sequence[n] and nothing else: index pulses, each ended
\* before the next begins, and no other output is high while it runs.
C7_PlaybackPulses ==
    pc \in DisplayPcs \cup InputPcs =>
       /\ Len(pulses) = 2 * i + (IF pc = "displayColorLow" THEN 1 ELSE 0)
       /\ \A n \in 1 .. Len(pulses) :
             pulses[n] = << colorToLED(sequence[(n - 1) \div 2]),
                            IF n % 2 = 1 THEN HIGH ELSE LOW >>
       /\ (pc \in InputPcs => i = index)
       /\ (pc \in DisplayPcs =>
             \A p \in OutPins :
                led[p] = HIGH <=>
                   (pc = "displayColorLow" /\ p = colorToLED(sequence[i])))

C7_Witness ==
    /\ pc = "for"
    /\ index = 3
    /\ Len(pulses) = 6
    /\ sequence[0] # sequence[1]
    /\ sequence[1] # sequence[2]

\* C8: with index within the capacity, every stored element of the sequence
\* is one of the four playable colours, never NO_COLOR.
C8_SequencePlayable ==
    index <= SEQ_CAPACITY =>
       \A n \in 0 .. (index - 1) : sequence[n] \in PlayableColors

C8_Witness ==
    /\ index = 2
    /\ pc = "displaySequence"
    /\ sequence[0] = YELLOW
    /\ sequence[1] = RED

\* C9: the sequence is append-only: no step changes a stored element; addColor
\* changes sequence at position index only and, of the game state, index only;
\* every other step leaves sequence and index alone.
C9_AppendOnly ==
    [][ /\ \A n \in DOMAIN sequence : n < index => sequence'[n] = sequence[n]
        /\ (pc = "addColor" =>
              /\ \A n \in DOMAIN sequence : n # index => sequence'[n] = sequence[n]
              /\ has_lost' = has_lost)
        /\ (pc # "addColor" => sequence' = sequence /\ index' = index) ]_vars

C9_Witness ==
    /\ index = 3
    /\ pc = "compare"
    /\ btnsPressed = 2
    /\ sequence[0] # sequence[2]

\* the order in which getButtonColor is said to resolve simultaneous presses
PriorityOrder == << RED, BLUE, GREEN, YELLOW >>

SampledState(c) ==
    CASE c = RED -> red_button_state
      [] c = BLUE -> blue_button_state
      [] c = GREEN -> green_button_state
      [] c = YELLOW -> yellow_button_state

ButtonOf(c) ==
    CASE c = RED -> RED_BUTTON
      [] c = BLUE -> BLUE_BUTTON
      [] c = GREEN -> GREEN_BUTTON
      [] c = YELLOW -> YELLOW_BUTTON

\* C10: the press is classified by the priority Red > Blue > Green > Yellow
\* over the sample that ended the wait: the classified button is the first of
\* that order whose sampled state is high, and the colour returned is its
\* colour.
C10_PressPriority ==
    pc \in {"held", "compare"} =>
       \E k \in 1 .. 4 :
          /\ SampledState(PriorityOrder[k]) = HIGH
          /\ \A m \in 1 .. (k - 1) : SampledState(PriorityOrder[m]) = LOW
          /\ buttonPin = ButtonOf(PriorityOrder[k])
          /\ (pc = "compare" => chosenColor = PriorityOrder[k])

C10_Witness ==
    /\ pc = "compare"
    /\ red_button_state = LOW
    /\ blue_button_state = HIGH
    /\ green_button_state = LOW
    /\ yellow_button_state = HIGH
    /\ chosenColor = BLUE

\* the four LED pins
LedPins == {RED_LED, BLUE_LED, GREEN_LED, YELLOW_LED}

AllLow == \A p \in OutPins : led[p] = LOW

\* C11: getButtonColor keeps the LED of the classified button lit while the
\* button reads high (a poll that reads high leaves the call waiting with the
\* LED on), and it returns only after a poll that read low, with that LED
\* off again and the colour of the classified button as its result.
C11_LitWhileHeld ==
    /\ [](pc \in {"held", "compare"} =>
            \E c \in PlayableColors :
               /\ ButtonOf(c) = buttonPin
               /\ (pc = "held" => led[colorToLED(c)] = HIGH /\ polled # LOW)
               /\ (pc = "compare" =>
                     /\ led[colorToLED(c)] = LOW
                     /\ polled = LOW
                     /\ chosenColor = c
                     /\ inputs[Len(inputs)] = c))
    /\ [][pc = "held" /\ polled' = HIGH => pc' = "held" /\ led' = led]_vars

C11_Witness ==
    /\ pc = "compare"
    /\ polled = LOW
    /\ buttonPin = GREEN_BUTTON
    /\ chosenColor = GREEN
    /\ led[GREEN_LED] = LOW
    /\ index = 2

\* C12: the wait has no timeout: a sample with no line high leaves
\* getButtonColor waiting and leaves has_lost, index, sequence, the inputs
\* read and the outputs as they were; the wait is left only by a sample with
\* a line high.
C12_WaitsForPress ==
    [][ pc = "buttonIsPressed" =>
          /\ gameVars' = gameVars
          /\ inputs' = inputs
          /\ btnsPressed' = btnsPressed
          /\ led' = led
          /\ (pc' # "buttonIsPressed" =>
                /\ pc' = "getButtonPressed"
                /\ \E c \in PlayableColors : SampledState(c)' = HIGH)
          /\ ((\A c \in PlayableColors : SampledState(c)' = LOW) =>
                pc' = "buttonIsPressed") ]_vars

C12_Witness ==
    /\ pc = "buttonIsPressed"
    /\ sampled = ButtonPins
    /\ \A c \in PlayableColors : SampledState(c) = LOW
    /\ btnsPressed = 0
    /\ index = 1

\* C13: a round extends, plays back, then reads: while the playback runs the
\* new colour is already stored, no input line has been sampled in the round
\* and no step of addColor or of the playback samples one (the cached states
\* keep their values); by the time a line is sampled the playback of all
\* index elements is complete.
C13_ExtendPlayRead ==
    /\ [](/\ (pc \in DisplayPcs \cup {"addColor"} =>
                sampled = {} /\ inputs = << >>)
          /\ (pc \in DisplayPcs =>
                /\ storeAt = index - 1
                /\ sequence[storeAt] \in PlayableColors)
          /\ (sampled # {} => i = index /\ Len(pulses) = 2 * index))
    /\ [][ (pc \in DisplayPcs \cup {"addColor"}) =>
              (buttonVars' = buttonVars /\ sampled' = {}) ]_vars

C13_Witness ==
    /\ pc = "buttonIsPressed"
    /\ sampled = {}
    /\ index = 2
    /\ i = 2
    /\ Len(pulses) = 4
    /\ red_button_state = HIGH

\* C14: the wait is left with a line high in the cached sample, the press is
\* classified from that sample, so the classified pin is one of the four
\* button pins, the pin driven is one of the four LED pins (pin 0 is never
\* driven) and the colour returned is never NO_COLOR.
C14_NeverNoColor ==
    /\ led[0] = LOW
    /\ (pc = "getButtonPressed" => \E c \in PlayableColors : SampledState(c) = HIGH)
    /\ (pc \in {"held", "compare"} =>
          /\ buttonPin \in ButtonPins
          /\ ledPin \in LedPins
          /\ SampledState(buttonToColor(buttonPin)) = HIGH)
    /\ (pc = "compare" => chosenColor # NO_COLOR)
    /\ \A n \in 1 .. Len(inputs) : inputs[n] # NO_COLOR

C14_Witness ==
    /\ pc = "held"
    /\ buttonPin = YELLOW_BUTTON
    /\ ledPin = YELLOW_LED
    /\ led[YELLOW_LED] = HIGH
    /\ yellow_button_state = HIGH
    /\ red_button_state = LOW

\* C15: while the game is being played (startup finished, has_lost not set,
\* index within the capacity) at most one of the four LEDs is high, and all
\* four are low while the program waits for a press and when a round starts.
C15_OneLedAtMost ==
    pc \notin {"runStartup", "showLoss"} /\ ~has_lost /\ index <= SEQ_CAPACITY =>
       /\ Cardinality({p \in LedPins : led[p] = HIGH}) <= 1
       /\ (pc \in {"loop", "addColor", "buttonIsPressed"} =>
             \A p \in LedPins : led[p] = LOW)

C15_Witness ==
    /\ pc = "held"
    /\ ~has_lost
    /\ btnsPressed = 1
    /\ led[BLUE_LED] = HIGH
    /\ \A p \in LedPins \ {BLUE_LED} : led[p] = LOW

\* C16: with a player who presses when waited for and releases what is held,
\* every round started with room left in the sequence returns to loop, and it
\* returns either with has_lost set or with all index inputs read and
\* matched.
C16_RoundTerminates ==
    /\ (pc = "addColor" /\ index < SEQ_CAPACITY) ~> (pc = "loop")
    /\ [](pc = "loop" /\ rounds > 0 =>
            has_lost \/ (Len(inputs) = index /\ Mismatches = {}))

C16_Witness ==
    /\ pc = "loop"
    /\ rounds = 2
    /\ ~has_lost
    /\ Len(inputs) = 2
    /\ Mismatches = {}
    /\ polled = LOW

\* the LEDs that are on
LedsHigh == {p \in LedPins : led[p] = HIGH}

\* the orders the animations are said to follow
StartupOnOrder == << RED_LED, BLUE_LED, GREEN_LED, YELLOW_LED >>
LossOffOrder == << YELLOW_LED, GREEN_LED, BLUE_LED, RED_LED >>

\* C17: the startup animation runs once, before any round: it turns the
\* LEDs on in the order Red, Blue, Green, Yellow, none going off before all
\* four are on, then turns them off; when it hands over to loop every output
\* is low and index is 0; control never comes back to it.
C17_StartupOnce ==
    /\ [](pc = "runStartup" =>
            /\ rounds = 0
            /\ index = 0
            /\ ~has_lost
            /\ (step <= 5 =>
                  LedsHigh = {StartupOnOrder[k] : k \in 1 .. (step - 1)}))
    /\ [][ /\ (pc = "runStartup" /\ step >= 5 =>
                 LedsHigh' \subseteq LedsHigh /\ LedsHigh' # LedsHigh)
           /\ (pc = "runStartup" /\ pc' # "runStartup" =>
                 pc' = "loop" /\ AllLow' /\ index' = 0 /\ rounds' = 0)
           /\ (pc # "runStartup" => pc' # "runStartup") ]_vars

C17_Witness ==
    /\ pc = "loop"
    /\ rounds = 0
    /\ index = 0
    /\ AllLow

\* C18: a run of showLoss turns all four LEDs on (none goes off before all
\* are on), then turns them off one at a time in the order Yellow, Green,
\* Blue, Red and returns with every output low; it reads no input line and
\* changes neither the game state nor the cached button states.
C18_LossAnimation ==
    /\ [](pc = "showLoss" =>
            /\ has_lost
            /\ led[0] = LOW
            /\ (step >= 5 =>
                  LedsHigh = LedPins \ {LossOffOrder[k] : k \in 1 .. (step - 5)}))
    /\ [][ pc = "showLoss" =>
             /\ (step < 5 =>
                   LedsHigh \subseteq LedsHigh' /\ Cardinality(LedsHigh') = step)
             /\ (pc' # "showLoss" => pc' = "loop" /\ AllLow')
             /\ gameVars' = gameVars
             /\ buttonVars' = buttonVars
             /\ sampled' = sampled
             /\ inputs' = inputs ]_vars

C18_Witness ==
    /\ pc = "showLoss"
    /\ step = 7
    /\ LedsHigh = {RED_LED, BLUE_LED}
    /\ index = 2

====
